---- MODULE Spec2Model ----
(***************************************************************************)
(* Model of RAGService (backend/app/services/rag_v2_backup.py): the        *)
(* search and chat operations, the re-ranker and the context assembler.    *)
(*                                                                         *)
(* Representation.  A Python str is a sequence of one-character strings.   *)
(* A similarity is an integer number of hundredths of a percent (85.0 is   *)
(* 8500); a distance is an integer number of 1e-5 units (0.15 is 15000),   *)
(* so (1 - distance) * 100 is an integer number of thousandths of a        *)
(* percent and round(x, 2) is a real rounding step.  Arithmetic is exact   *)
(* decimal arithmetic; binary floating point error is not modelled.        *)
(***************************************************************************)
EXTENDS Integers, Sequences, FiniteSets, TLC

(***************************************************************************)
(* Bounds of the model.                                                    *)
(***************************************************************************)
NDocs == 3          \* most records the vector store holds
MaxTopK == 11       \* largest top_k a caller passes

(***************************************************************************)
(* str helpers.                                                            *)
(***************************************************************************)
Whitespace == {" ", "\t"}

LowerChar(c) ==
    CASE c = "A" -> "a"
      [] c = "B" -> "b"
      [] c = "C" -> "c"
      [] c = "D" -> "d"
      [] OTHER -> c

\* str.lower()
Lower(s) == [i \in 1..Len(s) |-> LowerChar(s[i])]

RECURSIVE SplitAcc(_, _, _)
\* str.split(): cut at runs of whitespace, no empty tokens
SplitAcc(s, cur, acc) ==
    IF s = <<>>
    THEN IF cur = <<>> THEN acc ELSE Append(acc, cur)
    ELSE IF Head(s) \in Whitespace
         THEN SplitAcc(Tail(s), <<>>, IF cur = <<>> THEN acc ELSE Append(acc, cur))
         ELSE SplitAcc(Tail(s), Append(cur, Head(s)), acc)

Split(s) == SplitAcc(s, <<>>, <<>>)

\* set(s.split())
Words(s) == {Split(s)[i] : i \in 1..Len(Split(s))}

RECURSIVE SplitOnAcc(_, _, _, _)
\* str.split(sep): every separator cuts, empty components are kept
SplitOnAcc(s, sep, cur, acc) ==
    IF s = <<>>
    THEN Append(acc, cur)
    ELSE IF Head(s) = sep
         THEN SplitOnAcc(Tail(s), sep, <<>>, Append(acc, cur))
         ELSE SplitOnAcc(Tail(s), sep, Append(cur, Head(s)), acc)

SplitOn(s, sep) == SplitOnAcc(s, sep, <<>>, <<>>)

\* mutant of IsBlank: only the empty string is refused
IsBlankNoStrip(q) == q = <<>>

\* not query or not query.strip()
IsBlank(q) == q = <<>> \/ Split(q) = <<>>

Digits == {"0", "1", "2", "3", "4", "5", "6", "7", "8", "9"}

DigitVal(c) ==
    CASE c = "0" -> 0 [] c = "1" -> 1 [] c = "2" -> 2 [] c = "3" -> 3
      [] c = "4" -> 4 [] c = "5" -> 5 [] c = "6" -> 6 [] c = "7" -> 7
      [] c = "8" -> 8 [] c = "9" -> 9

RECURSIVE DigitsVal(_, _)
DigitsVal(s, acc) ==
    IF s = <<>> THEN acc ELSE DigitsVal(Tail(s), acc * 10 + DigitVal(Head(s)))

\* int(s): the value, or ValueError raised when s is not a run of digits
ParseInt(s) ==
    IF s # <<>> /\ \A i \in 1..Len(s) : s[i] \in Digits
    THEN [raised |-> FALSE, value |-> DigitsVal(s, 0)]
    ELSE [raised |-> TRUE, value |-> 0]

\* round(n / d) to the nearest integer, ties to even (Python's round), d > 0
RoundDiv(n, d) ==
    LET q == n \div d
        r == n % d
    IN  IF 2 * r < d THEN q
        ELSE IF 2 * r > d THEN q + 1
        ELSE IF q % 2 = 0 THEN q ELSE q + 1

Min(a, b) == IF a <= b THEN a ELSE b
Max(a, b) == IF a >= b THEN a ELSE b

(***************************************************************************)
(* Records held by the vector store.  Str("a b") is written out as a       *)
(* sequence of characters.  A metadata dict is a function whose domain is  *)
(* the set of keys present.                                                *)
(***************************************************************************)
Date2025 == <<"1", "2", "-", "0", "3", "-", "2", "0", "2", "5">>
DateIso == <<"2", "0", "2", "4", "-", "0", "1", "-", "0", "5">>
DateMalformed == <<"m", "a", "l", "f", "o", "r", "m", "e", "d">>
DateUnparseable == <<"x", "-", "y">>

AttachTwo == <<"[", "\"", "I", "\"", ",", "\"", "J", "\"", "]">>
AttachEmpty == <<"[", "]">>
AttachBroken == <<"[", "\"", "I">>

Meta1 ==
    [laq_num |-> "101", type |-> "Starred", minister |-> "M1",
     question |-> <<"a", " ", "b">>, answer |-> <<"c">>,
     date |-> Date2025, attachments |-> AttachTwo]
Meta2 ==
    [laq_num |-> "102", type |-> "Unstarred", minister |-> "M2",
     question |-> <<"c", " ", "d">>, answer |-> <<"A">>,
     date |-> DateIso, attachments |-> AttachEmpty]
Meta3 ==
    [laq_num |-> "103", type |-> "Starred", minister |-> "M3",
     question |-> <<"A">>, answer |-> <<"a", "\t", "d">>,
     date |-> DateMalformed, attachments |-> AttachBroken]
Meta4 ==
    [laq_num |-> "104", answer |-> <<"b">>, date |-> DateUnparseable]

BaseMetas == <<Meta1, Meta2, Meta3, Meta4>>

\* further date and attachments values a record can carry
DateYearOnly == <<"2", "0", "2", "5">>
DateMonthYear == <<"0", "5", "-", "2", "0", "2", "4">>
DateOld == <<"1", "2", "-", "2", "0", "2", "3">>
DateTrailingDash == <<"2", "0", "2", "5", "-">>

AttachString == <<"\"", "I", "\"">>
AttachNumbers == <<"[", "1", "]">>
AttachNumber == <<"7">>

Meta5 ==
    [laq_num |-> "105", type |-> "Starred", minister |-> "M5",
     question |-> <<"a", " ", "b">>, answer |-> <<"d">>]
Meta6 ==
    [laq_num |-> "106", type |-> "Starred", minister |-> "M6",
     question |-> <<"b">>, answer |-> <<"a", " ", "c">>,
     date |-> DateUnparseable, attachments |-> AttachString]
Meta7 ==
    [laq_num |-> "107", type |-> "Unstarred", minister |-> "M7",
     question |-> <<"d">>, answer |-> <<"a">>,
     date |-> DateYearOnly, attachments |-> AttachNumbers]
Meta8 ==
    [laq_num |-> "108", type |-> "Starred", minister |-> "M8",
     question |-> <<"c">>, answer |-> <<"b">>,
     date |-> DateMonthYear, attachments |-> AttachNumber]
Meta9 ==
    [laq_num |-> "109", type |-> "Unstarred", minister |-> "M9",
     question |-> <<"a", " ", "d">>, answer |-> <<"c">>,
     date |-> DateOld, attachments |-> AttachTwo]
Meta10 ==
    [laq_num |-> "110", type |-> "Starred", minister |-> "M10",
     question |-> <<"A", " ", "c">>, answer |-> <<"d">>,
     date |-> DateTrailingDash, attachments |-> AttachEmpty]

VariedMetas == <<Meta1, Meta2, Meta3, Meta5, Meta6, Meta7, Meta8, Meta9, Meta10>>

\* the record stored under identifier i
Record(i) ==
    [id |-> i, metadata |-> BaseMetas[((i - 1) % Len(BaseMetas)) + 1], document |-> i]

\* distances the store reports, in 1e-5 units: 0, 0.05, 0.06, 0.20004, 2
DistSet == {0, 5000, 6000, 20004, 200000}

\* the candidate lists a store can hold: record i at rank i, ascending distance
Stores ==
    UNION {
        {[i \in 1..n |-> Record(i) @@ [distance |-> f[i]]] :
            f \in {g \in [1..n -> DistSet] : \A i \in 1..n, j \in 1..n : i <= j => g[i] <= g[j]}}
        : n \in 0..NDocs}

\* the record with the j-th of the varied metadata
VariedRecord(j) == [id |-> j, metadata |-> VariedMetas[j], document |-> j]

\* distances of a pair of neighbouring records: 0.05 and 0.06, both 0.20004,
\* 0.25 and 0.45, 0.4 and 0.40004, both 2
PairDistances ==
    {<<5000, 6000>>, <<20004, 20004>>, <<25000, 45000>>, <<40000, 40004>>,
     <<200000, 200000>>}

\* stores holding two records with neighbouring metadata
RecordStores ==
    {<<VariedRecord(j) @@ [distance |-> d[1]],
       VariedRecord((j % Len(VariedMetas)) + 1) @@ [distance |-> d[2]]>> :
        j \in 1..Len(VariedMetas), d \in PairDistances}

\* dict.get(key, default)
Get(d, key, default) == IF key \in DOMAIN d THEN d[key] ELSE default

(***************************************************************************)
(* Collaborators (app/services/embeddings.py, app/services/database.py,    *)
(* ollama), as the service sees them.                                      *)
(***************************************************************************)
\* EmbeddingService.embed_text: a vector determined by the text
EmbedText(text) == [vector_of |-> text]

\* LAQDatabase.search(query_embedding, n_results): the n nearest, ascending
DbSearch(store, embedding, n) == SubSeq(store, 1, Min(n, Len(store)))

\* the configured relevance threshold, as a largest distance (0.5)
RelevanceMaxDistance == 50000

\* LAQDatabase.filter_by_relevance: the candidates passing the threshold, in order
FilterByRelevance(cands) ==
    SelectSeq(cands, LAMBDA c : c.distance <= RelevanceMaxDistance)

(***************************************************************************)
(* RAGService.search, lines 80-107: one formatted result per candidate.    *)
(***************************************************************************)
\* (1 - distance) * 100, in thousandths of a percent
RawSimilarity(distance) == 100000 - distance

MatchQuality(raw) ==
    IF raw >= 80000 THEN "STRONG MATCH"
    ELSE IF raw >= 60000 THEN "MODERATE MATCH"
    ELSE "WEAK MATCH"

MatchColor(raw) ==
    IF raw >= 80000 THEN "green"
    ELSE IF raw >= 60000 THEN "yellow"
    ELSE "red"

FormatResult(c) ==
    [id |-> c.id,
     similarity |-> RoundDiv(RawSimilarity(c.distance), 10),
     match_quality |-> MatchQuality(RawSimilarity(c.distance)),
     match_color |-> MatchColor(RawSimilarity(c.distance)),
     metadata |-> c.metadata,
     document |-> c.document]

FormatResults(base, cands) ==
    base \o [i \in 1..Len(cands) |-> FormatResult(cands[i])]

(***************************************************************************)
(* RAGService._rerank_results, lines 119-168.                              *)
(***************************************************************************)
QueryWords(query) == Words(Lower(query))

Overlap(query, field) == Cardinality(QueryWords(query) \cap Words(Lower(field)))

\* mutant of FreshnessBoost: the year is read from the first component
FreshnessBoostFirstPart(meta) ==
    LET date_str == Get(meta, "date", <<>>)
        parts == SplitOn(date_str, "-")
        year == IF \E i \in 1..Len(date_str) : date_str[i] = "-"
                THEN ParseInt(parts[1])
                ELSE [raised |-> FALSE, value |-> 0]
    IN  IF year.raised THEN 0
        ELSE IF year.value >= 2024 THEN 2 ELSE 0

\* lines 148-155: 2 when the part after the last '-' is an integer >= 2024
FreshnessBoost(meta) ==
    LET date_str == Get(meta, "date", <<>>)
        parts == SplitOn(date_str, "-")
        year == IF \E i \in 1..Len(date_str) : date_str[i] = "-"
                THEN ParseInt(parts[Len(parts)])
                ELSE [raised |-> FALSE, value |-> 0]
    IN  IF year.raised THEN 0
        ELSE IF year.value >= 2024 THEN 2 ELSE 0

\* lines 157-163: min(100, round(original + keyword_boost + freshness_boost, 2))
BoostedSimilarity(query, result) ==
    LET meta == result.metadata
        m == Max(Cardinality(QueryWords(query)), 1)
        nq == Overlap(query, Get(meta, "question", <<>>))
        na == Overlap(query, Get(meta, "answer", <<>>))
        num == result.similarity * m + 100 * (7 * nq + 3 * na)
               + 100 * m * FreshnessBoost(meta)
    IN  Min(10000, RoundDiv(num, m))

\* mutant of RerankOne: the label is computed again from the boosted score
RerankOneRelabelled(query, result) ==
    [k \in DOMAIN result \cup {"original_similarity"} |->
        IF k = "original_similarity" THEN result.similarity
        ELSE IF k = "similarity" THEN BoostedSimilarity(query, result)
        ELSE IF k = "match_quality"
             THEN MatchQuality(10 * BoostedSimilarity(query, result))
        ELSE result[k]]

RerankOne(query, result) ==
    [k \in DOMAIN result \cup {"original_similarity"} |->
        IF k = "original_similarity" THEN result.similarity
        ELSE IF k = "similarity" THEN BoostedSimilarity(query, result)
        ELSE result[k]]

\* the place of x in a list sorted by descending similarity, after its equals
RECURSIVE InsertDesc(_, _)
InsertDesc(sorted, x) ==
    IF sorted = <<>> THEN <<x>>
    ELSE IF Head(sorted).similarity >= x.similarity
         THEN <<Head(sorted)>> \o InsertDesc(Tail(sorted), x)
         ELSE <<x>> \o sorted

\* mutant of SortDesc: the sort is left out
Unsorted(results) == results

RECURSIVE SortDescAcc(_, _)
SortDescAcc(rest, acc) ==
    IF rest = <<>> THEN acc ELSE SortDescAcc(Tail(rest), InsertDesc(acc, Head(rest)))

\* list.sort(key=similarity, reverse=True): stable
SortDesc(results) == SortDescAcc(results, <<>>)

RerankResults(query, results) ==
    SortDesc([i \in 1..Len(results) |-> RerankOne(query, results[i])])

\* formatted_results[:top_k], top_k >= 0
Truncate(results, k) == SubSeq(results, 1, Min(k, Len(results)))

\* mutant of SearchK: the cap of 30 is left out
SearchKNoCap(k, use_reranking) == IF use_reranking THEN k * 3 ELSE k

\* line 61: how many candidates the store is asked for
SearchK(k, use_reranking) == IF use_reranking THEN Min(k * 3, 30) ELSE k

(***************************************************************************)
(* RAGService._build_context and _build_chat_prompt, lines 221-287.        *)
(***************************************************************************)
Quote == "\""

IsQuoted(s) ==
    /\ Len(s) >= 2
    /\ s[1] = Quote
    /\ s[Len(s)] = Quote
    /\ \A i \in 2..(Len(s) - 1) : s[i] # Quote

Unquote(s) == SubSeq(s, 2, Len(s) - 1)

\* json.loads on the texts of the model: an array of strings and numbers, a
\* string, a number; anything else raises.  all_str tells whether every item
\* of an array is a string
JsonLoads(s) ==
    IF Len(s) >= 2 /\ s[1] = "[" /\ s[Len(s)] = "]"
    THEN LET inner == SubSeq(s, 2, Len(s) - 1)
             parts == SplitOn(inner, ",")
         IN  IF inner = <<>>
             THEN [raised |-> FALSE, kind |-> "list", items |-> <<>>,
                   all_str |-> TRUE, num |-> 0]
             ELSE IF \A i \in 1..Len(parts) :
                        IsQuoted(parts[i]) \/ ~ParseInt(parts[i]).raised
                  THEN [raised |-> FALSE, kind |-> "list",
                        items |-> [i \in 1..Len(parts) |->
                                     IF IsQuoted(parts[i]) THEN Unquote(parts[i])
                                     ELSE parts[i]],
                        all_str |-> \A i \in 1..Len(parts) : IsQuoted(parts[i]),
                        num |-> 0]
                  ELSE [raised |-> TRUE, kind |-> "none", items |-> <<>>,
                        all_str |-> TRUE, num |-> 0]
    ELSE IF IsQuoted(s)
    THEN [raised |-> FALSE, kind |-> "str",
          items |-> [i \in 1..(Len(s) - 2) |-> <<s[i + 1]>>],
          all_str |-> TRUE, num |-> 0]
    ELSE IF ParseInt(s).raised
    THEN [raised |-> TRUE, kind |-> "none", items |-> <<>>, all_str |-> TRUE, num |-> 0]
    ELSE [raised |-> FALSE, kind |-> "num", items |-> <<>>, all_str |-> TRUE,
          num |-> ParseInt(s).value]

\* lines 236-242: the items of the attachments line, <<>> when there is none.
\* A string is joined character by character; joining a number, or a list
\* holding a number, raises TypeError, which the bare except turns into no line
AttachmentItems(meta) ==
    LET v == JsonLoads(Get(meta, "attachments", AttachEmpty))
    IN  IF v.raised THEN <<>>
        ELSE IF v.kind = "num" THEN <<>>
        ELSE IF ~v.all_str THEN <<>>
        ELSE v.items

NA == "N/A"
NAText == <<"N", "/", "A">>

ContextPart(result) ==
    LET meta == result.metadata
    IN  [laq_num |-> Get(meta, "laq_num", NA),
         type |-> Get(meta, "type", NA),
         date |-> Get(meta, "date", NAText),
         minister |-> Get(meta, "minister", NA),
         question |-> Get(meta, "question", NAText),
         answer |-> Get(meta, "answer", NAText),
         has_attachments |-> AttachmentItems(meta) # <<>>,
         attachments |-> AttachmentItems(meta),
         relevance |-> result.similarity]

Delimiter == [delimiter |-> "---"]

RECURSIVE Join(_, _)
\* sep.join(parts)
Join(parts, sep) ==
    IF Len(parts) <= 1 THEN parts
    ELSE <<Head(parts), sep>> \o Join(Tail(parts), sep)

BuildContext(search_results) ==
    Join([i \in 1..Len(search_results) |-> ContextPart(search_results[i])], Delimiter)

BuildChatPrompt(context, query) == [context |-> context, question |-> query]

\* ollama.generate(model, prompt, ...): the text a fixed backend answers with
Generate(cfg, prompt) ==
    [response |-> [model |-> cfg.llm_model, answers |-> prompt.question]]

FallbackMessage == "I couldn't find any relevant LAQs to answer your question."

(***************************************************************************)
(* RAGService.get_match_quality_stats, lines 289-309: the results counted   *)
(* by the tier of their similarity field.                                   *)
(***************************************************************************)
GetMatchQualityStats(results) ==
    LET at == [i \in 1..Len(results) |-> results[i].similarity]
    IN  [strong |-> Cardinality({i \in 1..Len(results) : at[i] >= 8000}),
         moderate |-> Cardinality({i \in 1..Len(results) : at[i] < 8000 /\ at[i] >= 6000}),
         weak |-> Cardinality({i \in 1..Len(results) : at[i] < 6000})]

(***************************************************************************)
(* State.  config and db are the service's fields (RAGService.__init__);   *)
(* frame[p] is the activation of search or chat that caller p is running:  *)
(* its arguments, its locals, its position, the collaborator calls it has  *)
(* made so far and how it ended.                                           *)
(***************************************************************************)
VARIABLES config, db, frame

vars == <<config, db, frame>>

Procs == {1, 2}

\* search_top_k and chat_top_k of the configuration
DefaultSearchTopK == 5
DefaultChatTopK == 3

InitialConfig ==
    [search_top_k |-> DefaultSearchTopK, chat_top_k |-> DefaultChatTopK,
     llm_model |-> "llm", llm_temperature |-> "t", llm_top_p |-> "p"]

NoTopK == [given |-> FALSE, value |-> 0]
TopK(k) == [given |-> TRUE, value |-> k]

Queries ==
    {<<>>, <<" ", "\t">>, <<"a">>, <<" ", "A", " ", "b">>, <<"a", " ", "c", " ", "d">>}
TopKs == {NoTopK} \cup {TopK(k) : k \in {1, 2, MaxTopK}}

\* the inputs of the runs with two callers
FewQueries == {<<"a">>, <<" ", "A", " ", "b">>}
FewTopKs == {NoTopK, TopK(1)}

NoOutcome == [kind |-> "none", type |-> "", msg |-> <<>>, value |-> <<>>]
NoResponse == [well_formed |-> FALSE, cands |-> <<>>]

IdleFrame ==
    [pc |-> "idle", op |-> "none", query |-> <<>>, top_k |-> NoTopK,
     apply_threshold |-> FALSE, use_reranking |-> FALSE,
     k |-> 0, search_k |-> 0, embedded |-> FALSE, raw |-> NoResponse,
     cands |-> <<>>, results |-> <<>>, calls |-> <<>>, cause |-> "",
     outcome |-> NoOutcome, round |-> 1, first |-> NoOutcome,
     context |-> <<>>]

Init ==
    /\ config = InitialConfig
    /\ db \in Stores
    /\ frame = [p \in Procs |-> IdleFrame]

\* mutant of Set: the resolved top_k is stored in the shared configuration
SetStoringTopK(p, f) ==
    /\ frame' = [frame EXCEPT ![p] = f]
    /\ config' = [config EXCEPT !.search_top_k = IF f.k > 0 THEN f.k ELSE @]
    /\ UNCHANGED db

\* the only writes of a step of caller p: its own frame
Set(p, f) ==
    /\ frame' = [frame EXCEPT ![p] = f]
    /\ UNCHANGED <<config, db>>

CallEntry(kind, n, ok) == [kind |-> kind, n |-> n, ok |-> ok]

Logged(f, kind, n, ok) == Append(f.calls, CallEntry(kind, n, ok))

\* mutant of RaiseValidation: the blank-query test sits inside the try block
RaiseValidationWrapped(f) ==
    [f EXCEPT !.pc = "done",
              !.outcome = [kind |-> "raise", type |-> "RAGError",
                           msg |-> <<"Search failed", "Query cannot be empty">>,
                           value |-> <<>>]]

\* raise ValueError("Query cannot be empty"), lines 54 and 184
RaiseValidation(f) ==
    [f EXCEPT !.pc = "done",
              !.outcome = [kind |-> "raise", type |-> "ValueError",
                           msg |-> <<"Query cannot be empty">>, value |-> <<>>]]

\* lines 116-117, and 218-219 around them when chat is the caller
SearchErrorMessage(op, cause) ==
    IF op = "chat"
    THEN <<"Chat generation failed", "Search failed", cause>>
    ELSE <<"Search failed", cause>>

RaiseInSearch(f, cause) ==
    [f EXCEPT !.pc = "done", !.cause = cause,
              !.outcome = [kind |-> "raise", type |-> "RAGError",
                           msg |-> SearchErrorMessage(f.op, cause), value |-> <<>>]]

\* lines 218-219, for a failure of chat's own steps
ChatErrorMessage(cause) == <<"Chat generation failed", cause>>

RaiseInChat(f, cause) ==
    [f EXCEPT !.pc = "done", !.cause = cause,
              !.outcome = [kind |-> "raise", type |-> "RAGError",
                           msg |-> ChatErrorMessage(cause), value |-> <<>>]]

\* search returns value: to the caller, or to chat at line 191
ReturnFromSearch(f, value) ==
    IF f.op = "chat"
    THEN [f EXCEPT !.pc = "respond", !.results = value]
    ELSE [f EXCEPT !.pc = "done", !.results = value,
                   !.outcome = [kind |-> "return", type |-> "", msg |-> <<>>,
                                value |-> value]]

ReturnFromChat(f, text, sources) ==
    [f EXCEPT !.pc = "done",
              !.outcome = [kind |-> "return", type |-> "", msg |-> <<>>,
                           value |-> [text |-> text, sources |-> sources]]]

(***************************************************************************)
(* Operations.                                                             *)
(***************************************************************************)
\* a caller invokes search(query, top_k, apply_threshold, use_reranking)
CallSearch(p, Qs, Ks) ==
    /\ frame[p].pc = "idle"
    /\ \E q \in Qs, tk \in Ks, at \in BOOLEAN, rr \in BOOLEAN :
         Set(p, [IdleFrame EXCEPT !.pc = "enter", !.op = "search", !.query = q,
                                  !.top_k = tk, !.apply_threshold = at,
                                  !.use_reranking = rr])

\* a caller invokes chat(query, top_k); chat passes True, True to search (line 191)
CallChat(p, Qs, Ks) ==
    /\ frame[p].pc = "idle"
    /\ \E q \in Qs, tk \in Ks :
         Set(p, [IdleFrame EXCEPT !.pc = "enter", !.op = "chat", !.query = q,
                                  !.top_k = tk, !.apply_threshold = TRUE,
                                  !.use_reranking = TRUE])

\* top_k when given, else the configured default (lines 57-58, 188-189)
ResolveTopK(f, cfg) ==
    IF f.top_k.given THEN f.top_k.value
    ELSE IF f.op = "chat" THEN cfg.chat_top_k ELSE cfg.search_top_k

\* lines 53-61 (183-191 first, for chat): validation, top_k, search_k
Enter(p) ==
    LET f == frame[p] IN
    /\ f.pc = "enter"
    /\ IF IsBlank(f.query)
       THEN Set(p, RaiseValidation(f))
       ELSE Set(p, [f EXCEPT !.pc = "embed",
                             !.k = ResolveTopK(f, config),
                             !.search_k = SearchK(ResolveTopK(f, config), f.use_reranking)])

\* mutant of EmbedOk: the query is embedded a second time
EmbedTwice(p) ==
    LET f == frame[p] IN
    /\ f.pc = "embed"
    /\ Set(p, [f EXCEPT !.pc = "query", !.embedded = TRUE,
                        !.calls = Append(Logged(f, "embed", 0, TRUE),
                                         CallEntry("embed", 0, TRUE))])

\* line 64, the embedding is returned
EmbedOk(p) ==
    LET f == frame[p] IN
    /\ f.pc = "embed"
    /\ Set(p, [f EXCEPT !.pc = "query", !.embedded = TRUE,
                        !.calls = Logged(f, "embed", 0, TRUE)])

\* mutant of EmbedFail: a failed embedding call is tried again
EmbedFailRetry(p) ==
    LET f == frame[p] IN
    /\ f.pc = "embed"
    /\ Len(f.calls) < 2
    /\ Set(p, [f EXCEPT !.calls = Logged(f, "embed", 0, FALSE)])

\* line 64, the embedding backend fails
EmbedFail(p) ==
    LET f == frame[p] IN
    /\ f.pc = "embed"
    /\ Set(p, RaiseInSearch([f EXCEPT !.calls = Logged(f, "embed", 0, FALSE)],
                            "embedding unavailable"))

\* line 67, the store answers
QueryOk(p) ==
    LET f == frame[p] IN
    /\ f.pc = "query"
    /\ Set(p, [f EXCEPT !.pc = "select",
                        !.raw = [well_formed |-> TRUE,
                                 cands |-> DbSearch(db, EmbedText(f.query), f.search_k)],
                        !.calls = Logged(f, "query", f.search_k, TRUE)])

\* line 67, the store answers with a bundle that lacks its keys
QueryMalformed(p) ==
    LET f == frame[p] IN
    /\ f.pc = "query"
    /\ Set(p, [f EXCEPT !.pc = "select", !.raw = NoResponse,
                        !.calls = Logged(f, "query", f.search_k, TRUE)])

\* line 67, the store fails
QueryFail(p) ==
    LET f == frame[p] IN
    /\ f.pc = "query"
    /\ Set(p, RaiseInSearch([f EXCEPT !.calls = Logged(f, "query", f.search_k, FALSE)],
                            "store unavailable"))

\* lines 70-71: the threshold filter
FilterOk(p) ==
    LET f == frame[p] IN
    /\ f.pc = "select"
    /\ f.apply_threshold
    /\ f.raw.well_formed
    /\ Set(p, [f EXCEPT !.pc = "format", !.cands = FilterByRelevance(f.raw.cands),
                        !.calls = Logged(f, "filter", 0, TRUE)])

\* lines 70-71: the filter fails, on a malformed bundle or by itself
FilterFail(p) ==
    LET f == frame[p] IN
    /\ f.pc = "select"
    /\ f.apply_threshold
    /\ Set(p, RaiseInSearch([f EXCEPT !.calls = Logged(f, "filter", 0, FALSE)],
                            IF f.raw.well_formed THEN "filter failed" ELSE "KeyError"))

\* lines 72-78: no filter; an empty answer returns [] at once
Extract(p) ==
    LET f == frame[p] IN
    /\ f.pc = "select"
    /\ ~f.apply_threshold
    /\ IF ~f.raw.well_formed
       THEN Set(p, RaiseInSearch(f, "KeyError"))
       ELSE IF f.raw.cands = <<>>
       THEN Set(p, ReturnFromSearch(f, <<>>))
       ELSE Set(p, [f EXCEPT !.pc = "format", !.cands = f.raw.cands])

\* mutant of NewResultList: the list survives the call (a mutable default
\* argument) and the next call appends to it
StaleResultList(p) ==
    IF frame[p].op = "search" THEN frame[p].first.value ELSE <<>>

\* formatted_results = [] (line 81): the list every call starts from
NewResultList(p) == <<>>

\* lines 80-107
Format(p) ==
    LET f == frame[p] IN
    /\ f.pc = "format"
    /\ Set(p, [f EXCEPT !.pc = "finish",
                        !.results = FormatResults(NewResultList(p), f.cands)])

\* mutant of Finish: the list is cut to top_k before it is re-ranked
FinishTruncateFirst(p) ==
    LET f == frame[p]
        cut == Truncate(f.results, f.k)
        ranked == IF f.use_reranking /\ cut # <<>>
                  THEN RerankResults(f.query, cut)
                  ELSE cut
    IN
    /\ f.pc = "finish"
    /\ Set(p, ReturnFromSearch(f, ranked))

\* lines 109-114: re-rank when asked and there is something to rank, cut to top_k
Finish(p) ==
    LET f == frame[p]
        ranked == IF f.use_reranking /\ f.results # <<>>
                  THEN RerankResults(f.query, f.results)
                  ELSE f.results
    IN
    /\ f.pc = "finish"
    /\ Set(p, ReturnFromSearch(f, Truncate(ranked, f.k)))

\* mutant of NoResults: chat never takes the short cut
NeverNoResults(results) == FALSE

\* if not results (line 193)
NoResults(results) == results = <<>>

\* lines 193-198: nothing found, the fixed answer and no generation
Fallback(p) ==
    LET f == frame[p] IN
    /\ f.pc = "respond"
    /\ NoResults(f.results)
    /\ Set(p, ReturnFromChat(f, [fallback |-> FallbackMessage], <<>>))

\* lines 200-201: the context is assembled, then the prompt around it
WithContext(f) == [f EXCEPT !.context = BuildContext(f.results)]

ChatPrompt(f) == BuildChatPrompt(WithContext(f).context, f.query)

\* lines 200-216, generation answers
GenerateOk(p) ==
    LET f == frame[p] IN
    /\ f.pc = "respond"
    /\ ~NoResults(f.results)
    /\ Set(p, ReturnFromChat([WithContext(f) EXCEPT !.calls = Logged(f, "generate", 0, TRUE)],
                             Generate(config, ChatPrompt(f)).response, f.results))

\* lines 206-216, the answer has no "response" key
GenerateMalformed(p) ==
    LET f == frame[p] IN
    /\ f.pc = "respond"
    /\ ~NoResults(f.results)
    /\ Set(p, RaiseInChat([WithContext(f) EXCEPT !.calls = Logged(f, "generate", 0, TRUE)],
                          "KeyError"))

\* lines 206-214, generation fails
GenerateFail(p) ==
    LET f == frame[p] IN
    /\ f.pc = "respond"
    /\ ~NoResults(f.results)
    /\ Set(p, RaiseInChat([WithContext(f) EXCEPT !.calls = Logged(f, "generate", 0, FALSE)],
                          "generation unavailable"))

\* the caller makes the same call once more
Again(p) ==
    LET f == frame[p] IN
    /\ f.pc = "done"
    /\ f.round = 1
    /\ f.outcome.kind = "return"
    /\ Set(p, [IdleFrame EXCEPT !.pc = "enter", !.op = f.op, !.query = f.query,
                                !.top_k = f.top_k,
                                !.apply_threshold = f.apply_threshold,
                                !.use_reranking = f.use_reranking,
                                !.round = 2, !.first = f.outcome])

\* the caller is done with the outcome
Reset(p) ==
    /\ frame[p].pc = "done"
    /\ Set(p, IdleFrame)

Step(p) ==
    \/ Enter(p)
    \/ EmbedOk(p)
    \/ EmbedFail(p)
    \/ QueryOk(p)
    \/ QueryMalformed(p)
    \/ QueryFail(p)
    \/ FilterOk(p)
    \/ FilterFail(p)
    \/ Extract(p)
    \/ Format(p)
    \/ Finish(p)
    \/ Fallback(p)
    \/ GenerateOk(p)
    \/ GenerateMalformed(p)
    \/ GenerateFail(p)
    \/ Reset(p)

\* one caller, calls one after another
Next ==
    \/ CallSearch(1, Queries, TopKs)
    \/ CallChat(1, Queries, TopKs)
    \/ Step(1)
    \/ Again(1)

Spec == Init /\ [][Next]_vars

\* two callers on the same service, steps interleaved
NextConc ==
    \E p \in Procs :
        \/ CallSearch(p, FewQueries, FewTopKs)
        \/ CallChat(p, FewQueries, FewTopKs)
        \/ Step(p)

\* the stores of the runs with two callers: full, two distances
FewStores ==
    {st \in Stores :
        /\ Len(st) = NDocs
        /\ \A i \in 1..Len(st) : st[i].distance \in {5000, 200000}}

InitConc ==
    /\ config = InitialConfig
    /\ db \in FewStores
    /\ frame = [p \in Procs |-> IdleFrame]

SpecConc == InitConc /\ [][NextConc]_vars

\* one caller on a store of two records drawn from the varied metadata
InitRecords ==
    /\ config = InitialConfig
    /\ db \in RecordStores
    /\ frame = [p \in Procs |-> IdleFrame]

SpecRecords == InitRecords /\ [][Next]_vars

(***************************************************************************)
(* Properties.                                                             *)
(***************************************************************************)
\* the top_k a call is answered for: the caller's, else the configured default
EffectiveTopK(f) ==
    IF f.top_k.given THEN f.top_k.value
    ELSE IF f.op = "chat" THEN config.chat_top_k ELSE config.search_top_k

\* every character of q is a blank or a tab (q may be empty)
OnlyWhitespace(q) == \A i \in 1..Len(q) : q[i] = " " \/ q[i] = "\t"

CallsOfKind(f, kind) == {i \in 1..Len(f.calls) : f.calls[i].kind = kind}

\* C1: every formatted or returned result has 0 <= similarity <= 100, before
\* and after boosting, whatever the distances in [0,2], the threshold mode and
\* the re-ranking flag.
C1_ClampInvariant ==
    \A p \in Procs :
        \A i \in 1..Len(frame[p].results) :
            /\ 0 <= frame[p].results[i].similarity
            /\ frame[p].results[i].similarity <= 10000

\* C2: what search returns (to its caller, or to chat) has at most top_k
\* entries, in non-increasing order of similarity.
C2_AtMostKDescending ==
    \A p \in Procs :
        LET f == frame[p] IN
        f.pc \in {"respond", "done"} =>
            /\ Len(f.results) <= EffectiveTopK(f)
            /\ \A i \in 1..Len(f.results), j \in 1..Len(f.results) :
                 i < j => f.results[i].similarity >= f.results[j].similarity

\* C2 witness: a re-ranked search has returned exactly top_k results out of a
\* larger pool, one of them ranked lower by distance than its place now.
C2_Witness ==
    \E p \in Procs :
        LET f == frame[p] IN
        /\ f.pc = "done" /\ f.op = "search" /\ f.outcome.kind = "return"
        /\ f.use_reranking
        /\ Len(f.results) = EffectiveTopK(f)
        /\ Len(f.cands) > Len(f.results)
        /\ Len(f.results) >= 2
        /\ \E i \in 1..Len(f.results) : f.results[i].id > i

\* C3: the n of every vector store query is min(top_k * 3, 30) with re-ranking
\* and top_k without, top_k being the caller's or the configured default.
C3_OverRetrieval ==
    \A p \in Procs :
        LET f == frame[p] IN
        \A i \in CallsOfKind(f, "query") :
            f.calls[i].n =
                IF f.use_reranking
                THEN (IF EffectiveTopK(f) * 3 <= 30 THEN EffectiveTopK(f) * 3 ELSE 30)
                ELSE EffectiveTopK(f)

\* C3 witness: a store query capped at 30 for a top_k whose triple is larger.
C3_Witness ==
    \E p \in Procs :
        LET f == frame[p] IN
        /\ f.use_reranking /\ f.top_k.given /\ f.top_k.value * 3 > 30
        /\ \E i \in CallsOfKind(f, "query") : f.calls[i].n = 30

\* C4: a call with a blank query ends with ValueError (the validation error)
\* and has called no collaborator.
C4_BlankQueryRejected ==
    \A p \in Procs :
        LET f == frame[p] IN
        (f.pc \notin {"idle", "enter"} /\ OnlyWhitespace(f.query)) =>
            /\ f.pc = "done"
            /\ f.outcome.kind = "raise"
            /\ f.outcome.type = "ValueError"
            /\ f.calls = <<>>

\* C4 witness: chat has been called with a whitespace-only query and has raised.
C4_Witness ==
    \E p \in Procs :
        LET f == frame[p] IN
        /\ f.op = "chat" /\ f.pc = "done"
        /\ f.query # <<>> /\ OnlyWhitespace(f.query)
        /\ f.outcome.type = "ValueError"

\* chat's search has come back with an empty list
ChatSearchEmpty(f) ==
    /\ f.op = "chat"
    /\ f.results = <<>>
    /\ \E i \in CallsOfKind(f, "filter") : f.calls[i].ok

\* C5: when chat's search (threshold on) yields nothing, chat returns the
\* fixed message with no sources and has made no generation call.
C5_EmptySearchFallback ==
    \A p \in Procs :
        LET f == frame[p] IN
        (f.pc = "done" /\ ChatSearchEmpty(f)) =>
            /\ f.outcome.kind = "return"
            /\ f.outcome.value = [text |-> [fallback |-> FallbackMessage], sources |-> <<>>]
            /\ CallsOfKind(f, "generate") = {}

\* C5 witness: chat is done after a store query and a filter that left nothing.
C5_Witness ==
    \E p \in Procs :
        LET f == frame[p] IN
        /\ f.pc = "done" /\ ChatSearchEmpty(f)
        /\ f.raw.cands # <<>>
        /\ f.outcome.kind = "return"

\* C6: a call that raises after a collaborator failure or a malformed answer
\* raises RAGError whose message ends with the cause's message; a failed
\* collaborator call always ends the call that way; a blank query raises
\* ValueError, never RAGError.
C6_ErrorPropagation ==
    \A p \in Procs :
        LET f == frame[p] IN
        /\ (f.pc = "done" /\ f.outcome.kind = "raise") =>
             IF OnlyWhitespace(f.query)
             THEN f.outcome.type = "ValueError"
             ELSE /\ f.outcome.type = "RAGError"
                  /\ f.cause # ""
                  /\ f.outcome.msg[Len(f.outcome.msg)] = f.cause
        /\ (\E i \in 1..Len(f.calls) : ~f.calls[i].ok) =>
             /\ f.pc = "done"
             /\ f.outcome.kind = "raise"
             /\ f.outcome.type = "RAGError"
        /\ (f.pc \in {"format", "finish", "respond"} \/ f.outcome.kind = "return") =>
             (f.raw.well_formed \/ f.calls = <<>>)

\* C6 witness: chat has raised RAGError for a store failure inside its search.
C6_Witness ==
    \E p \in Procs :
        LET f == frame[p] IN
        /\ f.op = "chat" /\ f.pc = "done"
        /\ f.outcome.type = "RAGError"
        /\ f.cause = "store unavailable"
        /\ Len(f.outcome.msg) = 3

KindRank(kind) ==
    CASE kind = "embed" -> 1
      [] kind = "query" -> 2
      [] kind = "filter" -> 3
      [] kind = "generate" -> 4

\* the calls made so far are in pipeline order, none twice, none skipped before
\* a later one
CallsInOrder(f) ==
    /\ \A i \in 1..Len(f.calls), j \in 1..Len(f.calls) :
         i < j => KindRank(f.calls[i].kind) < KindRank(f.calls[j].kind)
    /\ CallsOfKind(f, "query") # {} => CallsOfKind(f, "embed") # {}
    /\ CallsOfKind(f, "generate") # {} =>
         (f.op = "chat" /\ CallsOfKind(f, "query") # {})

C8_NoRetries ==
    \A p \in Procs :
        LET f == frame[p] IN
        \A i \in 1..Len(f.calls) :
            ~f.calls[i].ok =>
                /\ i = Len(f.calls)
                /\ f.pc = "done"
                /\ f.outcome.kind = "raise"

\* C8 witness: the store query failed after a good embedding call.
C8_Witness ==
    \E p \in Procs :
        LET f == frame[p] IN
        /\ Len(f.calls) = 2
        /\ f.calls[1].ok /\ ~f.calls[2].ok
        /\ f.pc = "done"

\* C9: the second of two search calls with the same inputs returns the list
\* the first returned: same ids, same order, same scores.
C9_Idempotent ==
    \A p \in Procs :
        LET f == frame[p] IN
        (f.op = "search" /\ f.round = 2 /\ f.pc = "done" /\ f.outcome.kind = "return") =>
            f.outcome.value = f.first.value

\* C9 witness: a repeated re-ranked search has returned two or more results.
C9_Witness ==
    \E p \in Procs :
        LET f == frame[p] IN
        /\ f.op = "search" /\ f.round = 2 /\ f.pc = "done"
        /\ f.use_reranking
        /\ f.outcome.kind = "return"
        /\ Len(f.outcome.value) >= 2
        /\ f.outcome.value[1].original_similarity < f.outcome.value[1].similarity

\* what a call with the arguments of f returns when it runs alone on a service
\* with store st and configuration cfg and no collaborator fails
AloneSearch(st, cfg, f) ==
    LET k == IF f.top_k.given THEN f.top_k.value
             ELSE IF f.op = "chat" THEN cfg.chat_top_k ELSE cfg.search_top_k
        n == IF f.use_reranking THEN Min(3 * k, 30) ELSE k
        found == DbSearch(st, EmbedText(f.query), n)
        kept == IF f.apply_threshold THEN FilterByRelevance(found) ELSE found
        formatted == [i \in 1..Len(kept) |-> FormatResult(kept[i])]
        ranked == IF f.use_reranking /\ formatted # <<>>
                  THEN RerankResults(f.query, formatted)
                  ELSE formatted
    IN  SubSeq(ranked, 1, Min(k, Len(ranked)))

AloneValue(st, cfg, f) ==
    IF f.op = "search" THEN AloneSearch(st, cfg, f)
    ELSE IF AloneSearch(st, cfg, f) = <<>>
    THEN [text |-> [fallback |-> FallbackMessage], sources |-> <<>>]
    ELSE [text |-> Generate(cfg, BuildChatPrompt(BuildContext(AloneSearch(st, cfg, f)),
                                                 f.query)).response,
          sources |-> AloneSearch(st, cfg, f)]

\* C10: with calls interleaved, a step writes the frame of one call only,
\* never the configuration or the store, and every call that returns returns
\* what it returns when run alone.
C10_Independent ==
    [][/\ config' = config
       /\ db' = db
       /\ \E p \in Procs : \A q \in Procs \ {p} : frame'[q] = frame[q]
       /\ \A p \in Procs :
            (frame'[p].pc = "done" /\ frame'[p].outcome.kind = "return") =>
                frame'[p].outcome.value = AloneValue(db, config, frame'[p])]_vars

\* C10 witness: one call has returned results while another call, with another
\* query and top_k, is between its formatting and its re-ranking.
C10_Witness ==
    /\ frame[1].pc = "done" /\ frame[1].outcome.kind = "return"
    /\ frame[1].results # <<>>
    /\ frame[2].pc = "finish" /\ frame[2].results # <<>>
    /\ frame[1].query # frame[2].query
    /\ frame[1].top_k # frame[2].top_k

(***************************************************************************)
(* Re-ranking score.                                                       *)
(***************************************************************************)
\* a result that went through _rerank_results
Reranked(r) == "original_similarity" \in DOMAIN r

\* the candidate a result was formatted from
CandidateOf(f, r) == CHOOSE c \in {f.cands[i] : i \in 1..Len(f.cands)} : c.id = r.id

\* the date's last '-'-separated component is an integer >= 2024
RecentYear(meta) ==
    /\ "date" \in DOMAIN meta
    /\ \E i \in 1..Len(meta.date) :
         /\ meta.date[i] = "-"
         /\ \A j \in (i + 1)..Len(meta.date) : meta.date[j] # "-"
         /\ LET last == SubSeq(meta.date, i + 1, Len(meta.date))
            IN  /\ last # <<>>
                /\ \A j \in 1..Len(last) : last[j] \in Digits
                /\ DigitsVal(last, 0) >= 2024

\* |query_tokens \cap field_tokens|, the field absent counting as empty
SharedTokens(query, meta, key) ==
    Cardinality(Words(Lower(query)) \cap
                (IF key \in DOMAIN meta THEN Words(Lower(meta[key])) ELSE {}))

\* m times (original_similarity + keyword_boost + freshness_boost), in
\* hundredths of a percent, m = max(|query_tokens|, 1); the product is exact
ScoreTimesM(query, r) ==
    LET m == Max(Cardinality(Words(Lower(query))), 1)
    IN  r.original_similarity * m
        + 100 * (7 * SharedTokens(query, r.metadata, "question")
                 + 3 * SharedTokens(query, r.metadata, "answer"))
        + (IF RecentYear(r.metadata) THEN 200 * m ELSE 0)

\* the results of the calls that have returned from search
Returned(f) ==
    IF \/ f.pc = "respond"
       \/ f.pc = "done" /\ f.outcome.kind = "return"
    THEN {f.results[i] : i \in 1..Len(f.results)}
    ELSE {}

\* C11 as stated: every re-ranked result has similarity exactly
\* min(100, original_similarity + keyword_boost + freshness_boost), with
\* original_similarity the similarity before the boost, keyword_boost
\* (0.7 * question_overlap + 0.3 * answer_overlap) * 10 and freshness_boost 2
\* exactly when the date's last '-' component is an integer >= 2024.
C11_ExactScore ==
    \A p \in Procs :
        LET f == frame[p]
            m == Max(Cardinality(Words(Lower(f.query))), 1)
        IN  \A r \in Returned(f) :
                Reranked(r) =>
                    /\ r.original_similarity =
                           RoundDiv(100000 - CandidateOf(f, r).distance, 10)
                    /\ r.similarity * m = Min(10000 * m, ScoreTimesM(f.query, r))

\* C11 amended: every re-ranked result has similarity
\* min(100, round(original_similarity + keyword_boost + freshness_boost, 2)),
\* that is 100 when the sum is 100 or more and else within half a hundredth
\* of the sum; original_similarity is the similarity before the boost; the
\* boosts are as C11 states them and no date value makes the call raise.
C11_RoundedScore ==
    \A p \in Procs :
        LET f == frame[p]
            m == Max(Cardinality(Words(Lower(f.query))), 1)
        IN  \A r \in Returned(f) :
                Reranked(r) =>
                    LET sum == ScoreTimesM(f.query, r)
                        diff == r.similarity * m - sum
                    IN  /\ r.original_similarity =
                               RoundDiv(100000 - CandidateOf(f, r).distance, 10)
                        /\ r.similarity <= 10000
                        /\ IF sum >= 10000 * m THEN r.similarity = 10000
                           ELSE 2 * diff <= m /\ 2 * diff >= -m

\* C11 witness: a returned re-ranked result whose sum is below 100 and is not
\* a whole number of hundredths, with a keyword boost, next to one whose date
\* gives no freshness boost and one with the freshness boost, below 100.
C11_Witness ==
    \E p \in Procs :
        LET f == frame[p]
            m == Max(Cardinality(Words(Lower(f.query))), 1)
        IN  /\ \E r \in Returned(f) :
                 /\ Reranked(r)
                 /\ ScoreTimesM(f.query, r) < 10000 * m
                 /\ ScoreTimesM(f.query, r) % m # 0
                 /\ r.similarity > r.original_similarity
                 /\ ~RecentYear(r.metadata)
                 /\ "date" \in DOMAIN r.metadata
                 /\ \E i \in 1..Len(r.metadata.date) : r.metadata.date[i] = "-"
            /\ \E r \in Returned(f) :
                 /\ Reranked(r)
                 /\ RecentYear(r.metadata)
                 /\ r.similarity >= r.original_similarity + 200
                 /\ r.similarity < 10000

(***************************************************************************)
(* Truncation after re-ranking.                                            *)
(***************************************************************************)
\* a call with re-ranking whose search has returned
RerankedReturn(f) ==
    /\ f.use_reranking
    /\ \/ f.pc = "respond"
       \/ f.pc = "done" /\ f.outcome.kind = "return"

\* the boosted similarity of candidate c for the query, from its distance
BoostedOfCandidate(query, c) ==
    LET m == Max(Cardinality(Words(Lower(query))), 1)
        pre == [original_similarity |-> RoundDiv(100000 - c.distance, 10),
                metadata |-> c.metadata]
    IN  Min(10000, RoundDiv(ScoreTimesM(query, pre), m))

\* C12: with re-ranking, search returns the first top_k entries of the
\* boosted ordering of the whole pool of retrieved, threshold-passing
\* candidates: min(top_k, pool size) results with distinct ids of the pool, in
\* non-increasing boosted order, and no candidate left out has a boosted
\* similarity strictly greater than a returned one.
C12_TruncateAfterRerank ==
    \A p \in Procs :
        LET f == frame[p]
            n == Len(f.results)
            pool == {f.cands[i] : i \in 1..Len(f.cands)}
            ids == {f.results[i].id : i \in 1..n}
        IN  RerankedReturn(f) =>
                /\ n = Min(EffectiveTopK(f), Len(f.cands))
                /\ \A i \in 1..n, j \in 1..n : i # j => f.results[i].id # f.results[j].id
                /\ \A i \in 1..n :
                     \E c \in pool :
                         /\ c.id = f.results[i].id
                         /\ f.results[i].similarity = BoostedOfCandidate(f.query, c)
                /\ \A i \in 1..n, j \in 1..n :
                     i < j => f.results[i].similarity >= f.results[j].similarity
                /\ \A c \in pool :
                     c.id \notin ids =>
                         \A i \in 1..n :
                             BoostedOfCandidate(f.query, c) <= f.results[i].similarity

\* C12 witness: a re-ranked search has returned top_k results, among them a
\* candidate that stood below position top_k by distance, while a candidate
\* nearer by distance was left out.
C12_Witness ==
    \E p \in Procs :
        LET f == frame[p]
            n == Len(f.results)
            ids == {f.results[i].id : i \in 1..n}
        IN  /\ RerankedReturn(f)
            /\ n = EffectiveTopK(f)
            /\ \E i \in 1..Len(f.cands) :
                 /\ i > EffectiveTopK(f)
                 /\ f.cands[i].id \in ids
                 /\ \E j \in 1..(i - 1) :
                      /\ f.cands[j].id \notin ids
                      /\ f.cands[j].distance < f.cands[i].distance

(***************************************************************************)
(* Context assembly.                                                       *)
(***************************************************************************)
\* chat has assembled the context of its results
ContextBuilt(f) == f.op = "chat" /\ CallsOfKind(f, "generate") # {}

\* the record's attachments metadata parses to a non-empty list
ParsesToNonEmptyList(meta) ==
    LET v == JsonLoads(Get(meta, "attachments", AttachEmpty))
    IN  ~v.raised /\ v.kind = "list" /\ v.items # <<>>

\* one block per result, in the order of the list, a delimiter between
\* neighbours, each block showing its result's final similarity
BlocksInOrder(f) ==
    LET n == Len(f.results) IN
    /\ Len(f.context) = 2 * n - 1
    /\ \A i \in 1..n :
         /\ f.context[2 * i - 1].laq_num = Get(f.results[i].metadata, "laq_num", NA)
         /\ f.context[2 * i - 1].relevance = f.results[i].similarity
    /\ \A i \in 1..(n - 1) : f.context[2 * i] = Delimiter
    /\ \A i \in 1..(n - 1) : f.results[i].similarity >= f.results[i + 1].similarity

\* C13: the assembled context has exactly one block per result, in the order
\* of the list, separated by the delimiter, each showing the result's final
\* similarity; a block has an attachments line if and only if the record's
\* attachments metadata parses to a non-empty list (so unparseable metadata
\* gives no line).
C13_ContextAssembly ==
    \A p \in Procs :
        LET f == frame[p] IN
        ContextBuilt(f) =>
            /\ BlocksInOrder(f)
            /\ \A i \in 1..Len(f.results) :
                 f.context[2 * i - 1].has_attachments
                     <=> ParsesToNonEmptyList(f.results[i].metadata)

(***************************************************************************)
(* Match quality labels.                                                   *)
(***************************************************************************)
\* the tier of a similarity given in hundredths of a percent
TierOf(similarity) ==
    IF similarity >= 8000 THEN "STRONG MATCH"
    ELSE IF similarity >= 6000 THEN "MODERATE MATCH"
    ELSE "WEAK MATCH"

\* the similarity a returned result had before any boost
PreBoost(r) == IF Reranked(r) THEN r.original_similarity ELSE r.similarity

\* how many of the results carry the label
Labelled(results, label) ==
    Cardinality({i \in 1..Len(results) : results[i].match_quality = label})

\* C14 as stated: the match_quality label of every result returned by search
\* is the tier (>= 80 STRONG, >= 60 MODERATE, else WEAK) of its pre-boost
\* similarity, whether or not the result was re-ranked afterwards.
C14_LabelIsPreBoostTier ==
    \A p \in Procs :
        \A r \in Returned(frame[p]) : r.match_quality = TierOf(PreBoost(r))

\* the tier of (1 - distance) * 100 before it is rounded to two decimals
TierOfDistance(distance) ==
    IF 100000 - distance >= 80000 THEN "STRONG MATCH"
    ELSE IF 100000 - distance >= 60000 THEN "MODERATE MATCH"
    ELSE "WEAK MATCH"

\* C14 amended: the match_quality label of every result returned by search
\* is the tier of (1 - distance) * 100 taken before that value is rounded to
\* two decimals, and re-ranking leaves the label as it was.
C14_LabelIsUnroundedTier ==
    \A p \in Procs :
        LET f == frame[p] IN
        \A r \in Returned(f) :
            r.match_quality = TierOfDistance(CandidateOf(f, r).distance)

\* C14 witness: a returned result, boosted across a tier boundary, carries the
\* label of the tier it came from, and get_match_quality_stats counts it in
\* the tier of its final similarity.
C14_Witness ==
    \E p \in Procs :
        LET f == frame[p] IN
        /\ f.pc = "done" /\ f.op = "search" /\ f.outcome.kind = "return"
        /\ \E r \in Returned(f) :
             /\ Reranked(r)
             /\ r.match_quality = "MODERATE MATCH"
             /\ TierOf(r.original_similarity) = "MODERATE MATCH"
             /\ TierOf(r.similarity) = "STRONG MATCH"
        /\ GetMatchQualityStats(f.results).strong > Labelled(f.results, "STRONG MATCH")

====
